---- MODULE Spec2Model ----
(***************************************************************************)
(* Celestial Explorer: the CelestialState owned by App (time, date, Earth  *)
(* and Moon orbit progress), the periodic clock tick, the date and time    *)
(* editors, the drag handlers of the universe view and the Moon phase      *)
(* classifiers of the header and of the sky view.                          *)
(*                                                                         *)
(* Numbers.  The program computes with JavaScript numbers.  The model      *)
(* keeps them as exact rationals on fixed grids:                           *)
(*   time      in units of 1/UnitsPerHour hour  (0.02 h = TickUnits,       *)
(*             one minute = MinuteUnits);                                  *)
(*   progress  in units of 1/ProgressDen of a turn (one tick of Earth =    *)
(*             EarthTickUnits, of the Moon = MoonTickUnits);               *)
(*   date      a Date value, in hours since 2025-01-01T00:00 UTC.          *)
(* Accumulated rounding noise of repeated additions is not modelled.  One  *)
(* rounding effect is: a sum that lands in [1/2, 1] is representable only  *)
(* on multiples of Ulp, while smaller magnitudes are representable on the  *)
(* finer unit grid, so adding 1 to a tiny negative number gives exactly 1. *)
(***************************************************************************)
EXTENDS Integers, Sequences, FiniteSets, TLC

VARIABLES celestialState, viewMode, dragTarget, rendered, tzOffset, lastEvent, origin, steps

vars == <<celestialState, viewMode, dragTarget, rendered, tzOffset, lastEvent, origin, steps>>

(* ------------------------------ bounds --------------------------------- *)

\* Number of events of one run of the interleaved machine (Spec).
MaxSteps == 3

\* Number of consecutive clock ticks of one run of the clock alone (SpecClock).
MaxTicks == 438000

\* Longest time string typed into the time editor in SpecEdit.
MaxTyped == 4

\* Years before and after 2025 offered by the date input in SpecEdit.
MaxYears == 1

\* Number of pointer moves of one run of the drags on the drawn bodies (SpecDrag).
MaxDrags == 2

(* --------------------------- program constants ------------------------- *)

HoursPerDay == 24

EarthPeriodDays == 365

MoonPeriodDays == 28

MinutesPerHour == 60

\* timeIncrement = 0.02 hour = 1/50 hour.
TicksPerHour == 50

\* maxLength of the time input.
TimeMaxLength == 5

(* ------------------------------ the grids ------------------------------ *)

\* Spacing of the representable numbers in [1/2, 1], in progress units.
Ulp == 4

\* Time: 1/300 hour, the common grid of 1/50 hour (a tick) and 1/60 hour (a minute).
UnitsPerHour == TicksPerHour * 6

TickUnits == UnitsPerHour \div TicksPerHour

MinuteUnits == UnitsPerHour \div MinutesPerHour

DayUnits == HoursPerDay * UnitsPerHour

TicksPerDay == HoursPerDay * TicksPerHour

\* Progress: one turn.
ProgressDen == EarthPeriodDays * MoonPeriodDays * TicksPerDay * Ulp

\* timeIncrement / (24 * 365) and timeIncrement / (24 * 28), in progress units.
EarthTickUnits == ProgressDen \div (TicksPerDay * EarthPeriodDays)

\* Mutant: the Moon's increment copied from Earth's, with the period left at 365.
MoonTickUnitsCopied == EarthTickUnits

MoonTickUnits == ProgressDen \div (TicksPerDay * MoonPeriodDays)

(* --------------------------- JavaScript numbers ------------------------ *)

Abs(x) == IF x < 0 THEN -x ELSE x

\* a % b of JavaScript: the remainder carries the sign of the dividend.
JsRem(a, b) == IF a < 0 THEN -((-a) % b) ELSE a % b

\* Math.floor(a / b) for b > 0.
JsFloorDiv(a, b) == a \div b

\* The representable number nearest to the exact value x of a sum, on the
\* progress grid: multiples of Ulp from 1/2 up, every unit below.
RoundProgress(x) ==
  IF 2 * Abs(x) < ProgressDen THEN x
  ELSE LET lo == (x \div Ulp) * Ulp
       IN  IF 2 * (x - lo) < Ulp THEN lo
           ELSE IF 2 * (x - lo) > Ulp THEN lo + Ulp
           ELSE IF (lo \div Ulp) % 2 = 0 THEN lo ELSE lo + Ulp

(* ------------------------------ the clock ------------------------------ *)

\* const [celestialState, setCelestialState] = useState({...})
InitialState(tz) ==
  [ time |-> 18 * UnitsPerHour,
    date |-> -tz,
    earthOrbitProgress |-> 0,
    moonOrbitProgress |-> 0 ]

\* Mutant: the date moved by setTime(getTime() + 1), a millisecond, not a day.
AddOneMillisecond(date) == date

\* newDate.setDate(newDate.getDate() + 1): the same local time, one calendar day on.
AddOneDay(date) == date + HoursPerDay

\* Mutant: midnight tested with newTime > 24, so a tick landing on 24 exactly keeps the date.
TickFnStrictMidnight(prev) ==
  LET newTime == prev.time + TickUnits
      newDate == IF newTime > DayUnits THEN prev.date + HoursPerDay ELSE prev.date
  IN  [ prev EXCEPT
          !.time = JsRem(newTime, DayUnits),
          !.date = newDate,
          !.earthOrbitProgress = JsRem(prev.earthOrbitProgress + EarthTickUnits, ProgressDen),
          !.moonOrbitProgress = JsRem(prev.moonOrbitProgress + MoonTickUnits, ProgressDen) ]

\* The updater the interval timer hands to setCelestialState every 50 ms.
TickFn(prev) ==
  LET newTime == prev.time + TickUnits
      newDate == IF newTime >= DayUnits THEN AddOneDay(prev.date) ELSE prev.date
  IN  [ prev EXCEPT
          !.time = JsRem(newTime, DayUnits),
          !.date = newDate,
          !.earthOrbitProgress = JsRem(prev.earthOrbitProgress + EarthTickUnits, ProgressDen),
          !.moonOrbitProgress = JsRem(prev.moonOrbitProgress + MoonTickUnits, ProgressDen) ]

(* --------------------------- the time editor --------------------------- *)

Digits == {"0", "1", "2", "3", "4", "5", "6", "7", "8", "9"}

DigitValue(c) ==
  CASE c = "0" -> 0 [] c = "1" -> 1 [] c = "2" -> 2 [] c = "3" -> 3 [] c = "4" -> 4
    [] c = "5" -> 5 [] c = "6" -> 6 [] c = "7" -> 7 [] c = "8" -> 8 [] c = "9" -> 9

\* value.replace(/[^0-9:]/g, ''): a string is a sequence of characters.
StripNonTimeChars(value) == SelectSeq(value, LAMBDA c : c \in Digits \cup {":"})

\* Index of the first ":" of s, 0 when there is none.
FirstColon(s) ==
  IF \E i \in 1..Len(s) : s[i] = ":"
  THEN CHOOSE i \in 1..Len(s) : s[i] = ":" /\ \A j \in 1..(i - 1) : s[j] # ":"
  ELSE 0

\* value.split(':'): the pieces between the colons; "" splits into one empty piece.
RECURSIVE SplitColon(_)
SplitColon(s) ==
  IF FirstColon(s) = 0 THEN << s >>
  ELSE << SubSeq(s, 1, FirstColon(s) - 1) >> \o SplitColon(SubSeq(s, FirstColon(s) + 1, Len(s)))

\* A JavaScript number that may be NaN.
NaN == [nan |-> TRUE, val |-> 0]

Num(n) == [nan |-> FALSE, val |-> n]

\* Number(piece) for a piece of digits: "" is 0, digits are read in base ten.
RECURSIVE DecimalValue(_)
DecimalValue(piece) ==
  IF Len(piece) = 0 THEN 0
  ELSE 10 * DecimalValue(SubSeq(piece, 1, Len(piece) - 1)) + DigitValue(piece[Len(piece)])

ToNumber(piece) ==
  IF \A i \in 1..Len(piece) : piece[i] \in Digits THEN Num(DecimalValue(piece)) ELSE NaN

\* const [hours, minutes] = value.split(':').map(Number): a missing element is
\* undefined, which the comparisons treat as NaN.
ParsedFields(value) ==
  LET pieces == SplitColon(StripNonTimeChars(value))
  IN  [ hours |-> ToNumber(pieces[1]),
        minutes |-> IF Len(pieces) >= 2 THEN ToNumber(pieces[2]) ELSE NaN ]

\* The test of handleTimeChange.
TimeAccepted(value) ==
  LET f == ParsedFields(value)
  IN  /\ ~f.hours.nan /\ f.hours.val >= 0 /\ f.hours.val < HoursPerDay
      /\ ~f.minutes.nan /\ f.minutes.val >= 0 /\ f.minutes.val < MinutesPerHour

\* handleTimeChange: the state after the change event with e.target.value = value.
handleTimeChange(prev, value) ==
  IF TimeAccepted(value)
  THEN LET f == ParsedFields(value)
       IN  [ prev EXCEPT !.time = f.hours.val * UnitsPerHour + f.minutes.val * MinuteUnits ]
  ELSE prev

(* --------------------------- the date editor --------------------------- *)

\* The value of the date input: the empty string (a cleared field), or the
\* ISO text of a calendar date, held as its year, month and day.
EmptyDate == [y |-> 0, m |-> 0, d |-> 0]

IsLeap(y) == (y % 4 = 0 /\ y % 100 # 0) \/ y % 400 = 0

DaysInMonth(y, m) ==
  CASE m \in {1, 3, 5, 7, 8, 10, 12} -> 31
    [] m \in {4, 6, 9, 11} -> 30
    [] OTHER -> IF IsLeap(y) THEN 29 ELSE 28

DaysInYear(y) == IF IsLeap(y) THEN 366 ELSE 365

ValidDate(v) == v.m \in 1..12 /\ v.d >= 1 /\ v.d <= DaysInMonth(v.y, v.m)

RECURSIVE DaysBeforeMonth(_, _)
DaysBeforeMonth(y, m) == IF m = 1 THEN 0 ELSE DaysBeforeMonth(y, m - 1) + DaysInMonth(y, m - 1)

\* Days from 2025-01-01 to the first of January of year y.
RECURSIVE DaysBeforeYear(_)
DaysBeforeYear(y) ==
  IF y = 2025 THEN 0
  ELSE IF y > 2025 THEN DaysBeforeYear(y - 1) + DaysInYear(y - 1)
  ELSE DaysBeforeYear(y + 1) - DaysInYear(y)

\* Calendar days from 2025-01-01 to the date v.
CalendarDay(v) == DaysBeforeYear(v.y) + DaysBeforeMonth(v.y, v.m) + (v.d - 1)

\* new Date(e.target.value).getTime(): a date-only ISO text is midnight UTC of
\* that day; anything else is an invalid Date, whose time is NaN.
ParseDate(v) == IF ValidDate(v) THEN Num(HoursPerDay * CalendarDay(v)) ELSE NaN

\* new Date(2025, 0, 1).getTime(): local midnight, on a host tz hours east of UTC.
ReferenceDate(tz) == -tz

\* Math.floor((newDate.getTime() - referenceDate.getTime()) / (1000 * 60 * 60 * 24))
DaysDiff(newDate, tz) == JsFloorDiv(newDate - ReferenceDate(tz), HoursPerDay)

\* (daysDiff / period) % 1, then + 1 when negative.
ProgressOfDays(daysDiff, period) ==
  LET p == JsRem(daysDiff, period) * (ProgressDen \div period)
  IN  IF p < 0 THEN RoundProgress(p + ProgressDen) ELSE p

\* handleDateChange: the state after the change event with e.target.value = v.
handleDateChange(prev, v, tz) ==
  LET newDate == ParseDate(v)
  IN  IF ~newDate.nan
      THEN [ prev EXCEPT
               !.date = newDate.val,
               !.earthOrbitProgress = ProgressOfDays(DaysDiff(newDate.val, tz), EarthPeriodDays),
               !.moonOrbitProgress = ProgressOfDays(DaysDiff(newDate.val, tz), MoonPeriodDays) ]
      ELSE prev

(* ------------------------- the universe view drag ---------------------- *)

\* Angles are fractions of a turn in progress units; the standard angle t of
\* a vector is the one with x = cos t and z = sin t, so that atan2(z, x) = t.

HalfTurn == ProgressDen \div 2

\* The value of Math.atan2 for a direction of standard angle t: in (-1/2, 1/2] turn.
NormAngle(t) ==
  LET r == t % ProgressDen
  IN  IF r > HalfTurn THEN r - ProgressDen ELSE r

\* A world point of the interaction plane, written as the point of the circle of
\* radius EARTH_DIST at standard angle c, plus an offset of length r (0, or r
\* units of MOON_DIST) in the direction of standard angle a.
WorldPoint(c, a, r) == [c |-> c, a |-> a, r |-> r]

\* Math.atan2(point.z, point.x) where the model can give it exactly: the point
\* lies on the ray from the origin at angle c.
PointAngleDefined(point) == point.r = 0 \/ (point.a - point.c) % ProgressDen = 0

PointAngle(point) == NormAngle(point.c)

\* Math.atan2(relZ, relX) for rel = point - (earthX, earthZ) of the drag handler,
\* where earthX = cos(2 pi e) * EARTH_DIST and earthZ = sin(2 pi e) * EARTH_DIST:
\* exact when the point is an offset from that very centre.
RelAngleDefined(point, e) == (point.c - e) % ProgressDen = 0

RelAngle(point, e) == IF point.r = 0 THEN 0 ELSE NormAngle(point.a)

\* The miniMap prop of UniverseView: App never passes it, so it has its default.
miniMap == FALSE

\* if (progress < 0) progress += 1
AddOneIfNegative(progress) ==
  IF progress < 0 THEN RoundProgress(progress + ProgressDen) ELSE progress

\* while (progress < 0) progress += 1; while (progress >= 1) progress -= 1
RECURSIVE WhileNegativeAddOne(_)
WhileNegativeAddOne(progress) ==
  IF progress < 0 THEN WhileNegativeAddOne(RoundProgress(progress + ProgressDen)) ELSE progress

RECURSIVE WhileAtLeastOneSubtract(_)
WhileAtLeastOneSubtract(progress) ==
  IF progress >= ProgressDen THEN WhileAtLeastOneSubtract(progress - ProgressDen) ELSE progress

\* The earth branch of handleDragUpdate: the partial state handed to onChange.
EarthDragProgress(point) == AddOneIfNegative(PointAngle(point))

\* The moon branch of handleDragUpdate, with state the props of the last render.
MoonDragProgress(point, state) ==
  LET e == state.earthOrbitProgress
      relAngle == RelAngle(point, e)
      angleToSun == NormAngle(e + HalfTurn)
  IN  WhileAtLeastOneSubtract(WhileNegativeAddOne(relAngle - angleToSun))

\* Mutant: the partial state merged onto the props of the last render.
handleDragUpdateOntoProps(prev, point, target, state) ==
  IF target = "none" \/ miniMap THEN prev
  ELSE IF target = "earth" THEN [ state EXCEPT !.earthOrbitProgress = EarthDragProgress(point) ]
  ELSE [ state EXCEPT !.moonOrbitProgress = MoonDragProgress(point, state) ]

\* handleDragUpdate(point) followed by the merge of App's onChange:
\* setCelestialState(prev => ({...prev, ...newState})).  target and state are the
\* dragTarget and the props the handler closed over at the last render.
handleDragUpdate(prev, point, target, state) ==
  IF target = "none" \/ miniMap THEN prev
  ELSE IF target = "earth" THEN [ prev EXCEPT !.earthOrbitProgress = EarthDragProgress(point) ]
  ELSE [ prev EXCEPT !.moonOrbitProgress = MoonDragProgress(point, state) ]

(* ------------------------ the drawn scene (EarthSystem) ---------------- *)

\* Standard angle of the drawn Earth: earthX = cos(2 pi e) * orbitDist and
\* earthZ = -sin(2 pi e) * orbitDist.
EarthDirection(state) == NormAngle(-state.earthOrbitProgress)

\* angleToSun = Math.atan2(-earthZ, -earthX) of EarthSystem.
sceneAngleToSun(state) == NormAngle(EarthDirection(state) + HalfTurn)

\* moonAngle = angleToSun + moonOrbitProgress * 2 pi of EarthSystem.
sceneMoonAngle(state) == sceneAngleToSun(state) + state.moonOrbitProgress

\* Standard angle of the drawn Moon seen from the drawn Earth: the mesh is at
\* (cos(moonAngle) * moonDist, 0, -sin(moonAngle) * moonDist) in Earth's group.
MoonDirection(state) == NormAngle(-sceneMoonAngle(state))

\* World points where the scene draws Earth and the Moon.
EarthPosition(state) == WorldPoint(EarthDirection(state), 0, 0)

MoonPosition(state) == WorldPoint(EarthDirection(state), MoonDirection(state), 1)

\* Angles that involve the time of day are kept in units of 1/FineDen turn, on
\* which both a progress unit and a time unit are whole.
FineDen == 3 * ProgressDen

\* timeAngle = (state.time / 24) * 2 pi of EarthSystem, in 1/FineDen turn.
timeAngle(state) == state.time * (FineDen \div DayUnits)

\* Standard angle, in 1/FineDen turn, of the view marker seen from Earth's centre:
\* userLocalX = cos(angleToSun + timeAngle) * d, userLocalZ = sin(angleToSun + timeAngle) * d.
userDirection(state) == (3 * sceneAngleToSun(state) + timeAngle(state)) % FineDen

(* ------------------------ the 2D overlay (mini-map) -------------------- *)

\* Mutant: the overlay Moon angle without the negation.
miniMapPositionsNoNegation(state) ==
  LET earthAngle == NormAngle(-state.earthOrbitProgress)
      angleToSun == NormAngle(-state.earthOrbitProgress + HalfTurn)
      moonAngle3D == angleToSun + state.moonOrbitProgress
  IN  [earthAngle |-> earthAngle, moonAngleDeg |-> moonAngle3D]

\* miniMapPositions of App.  The factor 180 / pi turns radians into the degrees
\* of the CSS rotate(); both are fractions of a turn here.
miniMapPositions(state) ==
  LET earthAngle == NormAngle(-state.earthOrbitProgress)
      angleToSun == NormAngle(-state.earthOrbitProgress + HalfTurn)
      moonAngle3D == angleToSun + state.moonOrbitProgress
  IN  [earthAngle |-> earthAngle, moonAngleDeg |-> -moonAngle3D]

\* The rotation of the overlay's Earth element: rotate(earthAngle) translateX(..).
OverlayEarthRotation(state) == miniMapPositions(state).earthAngle

\* The net rotation of the overlay's Moon element: its own
\* rotate(moonAngleDeg - earthAngle) inside the rotated Earth element.
OverlayMoonRotation(state) ==
  (miniMapPositions(state).moonAngleDeg - miniMapPositions(state).earthAngle)
    + OverlayEarthRotation(state)

(* ------------------------- Moon phase classifiers ---------------------- *)

\* A hundredth of a turn: the thresholds 0.03, 0.22, ... are Hundredths(3), ...
Hundredths(k) == k * (ProgressDen \div 100)

\* ((p % 1) + 1) % 1
NormalizeProgress(p) == JsRem(JsRem(p, ProgressDen) + ProgressDen, ProgressDen)

\* moonPhaseName of App: the label of the header (its English part).
moonPhaseName(moonOrbitProgress) ==
  LET p == NormalizeProgress(moonOrbitProgress)
  IN  IF p < Hundredths(3) \/ p > Hundredths(97) THEN "New Moon"
      ELSE IF p >= Hundredths(3) /\ p < Hundredths(22) THEN "Waning Crescent"
      ELSE IF p >= Hundredths(22) /\ p < Hundredths(28) THEN "Last Quarter"
      ELSE IF p >= Hundredths(28) /\ p < Hundredths(47) THEN "Waning Gibbous"
      ELSE IF p >= Hundredths(47) /\ p < Hundredths(53) THEN "Full Moon"
      ELSE IF p >= Hundredths(53) /\ p < Hundredths(72) THEN "Waxing Gibbous"
      ELSE IF p >= Hundredths(72) /\ p < Hundredths(78) THEN "First Quarter"
      ELSE IF p >= Hundredths(78) /\ p < Hundredths(97) THEN "Waxing Crescent"
      ELSE "phase is changing"

\* Mutant: the sky label taken from the header's table.
moonPhaseTextFromHeader(moonOrbitProgress) == moonPhaseName(moonOrbitProgress)

\* moonPhaseText of HomeView's SkyContent: the label next to the Moon in the sky.
moonPhaseText(moonOrbitProgress) ==
  LET prog == NormalizeProgress(moonOrbitProgress)
  IN  IF prog < Hundredths(3) \/ prog > Hundredths(97) THEN "New Moon"
      ELSE IF prog >= Hundredths(3) /\ prog < Hundredths(22) THEN "Waxing Crescent"
      ELSE IF prog >= Hundredths(22) /\ prog < Hundredths(28) THEN "First Quarter"
      ELSE IF prog >= Hundredths(28) /\ prog < Hundredths(47) THEN "Waxing Gibbous"
      ELSE IF prog >= Hundredths(47) /\ prog < Hundredths(53) THEN "Full Moon"
      ELSE IF prog >= Hundredths(53) /\ prog < Hundredths(72) THEN "Waning Gibbous"
      ELSE IF prog >= Hundredths(72) /\ prog < Hundredths(78) THEN "Last Quarter"
      ELSE IF prog >= Hundredths(78) /\ prog < Hundredths(97) THEN "Waning Crescent"
      ELSE ""

(* -------------------- Moon visibility in the sky view ------------------ *)

\* Mutant: the crescent window opening strictly after 18:00.
isWaxingCrescentVisibleAfter18(state) ==
  LET prog == NormalizeProgress(state.moonOrbitProgress)
      hour == state.time
  IN  (prog >= Hundredths(3) /\ prog < Hundredths(22))
        /\ hour > 18 * UnitsPerHour /\ hour < 24 * UnitsPerHour

\* isWaxingCrescentVisible of SkyContent.
isWaxingCrescentVisible(state) ==
  LET prog == NormalizeProgress(state.moonOrbitProgress)
      isWaxingCrescent == prog >= Hundredths(3) /\ prog < Hundredths(22)
      hour == state.time
  IN  isWaxingCrescent /\ hour >= 18 * UnitsPerHour /\ hour < 24 * UnitsPerHour

\* Whether SkyContent renders the Moon mesh visible: the hidden branch is taken
\* when isNewMoon || (isWaxingCrescent && !isWaxingCrescentVisible).
moonVisible(state) ==
  LET prog == NormalizeProgress(state.moonOrbitProgress)
      isNewMoon == prog < Hundredths(3) \/ prog > Hundredths(97)
      isWaxingCrescent == prog >= Hundredths(3) /\ prog < Hundredths(22)
  IN  ~(isNewMoon \/ (isWaxingCrescent /\ ~isWaxingCrescentVisible(state)))

(* ---------------------- the Moon's light in the sky view --------------- *)

\* distFromNew = Math.min(p, 1 - p) of the frame callback of SkyContent.
distFromNew(state) ==
  LET p == NormalizeProgress(state.moonOrbitProgress)
  IN  IF p < ProgressDen - p THEN p ELSE ProgressDen - p

\* The intensity the frame callback of SkyContent assigns to the Moon's
\* directional light; both branches of the render mount the light and the Moon
\* mesh, so the callback's guard on the two refs holds in either.
moonLightIntensity(state) ==
  IF distFromNew(state) < ProgressDen \div 200 THEN 0
  ELSE IF distFromNew(state) < Hundredths(10) THEN 80
  ELSE 30

(* ------------------------------- inputs -------------------------------- *)

\* Host time zones: hours east of UTC (no daylight saving).
TzOffsets == {-5, 0, 9}

\* Time strings typed in the interleaved machine.
TimeSamples ==
  { << "2", "3", ":", "5", "9" >>, << "0", "6", ":", "3", "0" >>,
    << "2", "4", ":", "0", "0" >>, << "1", "2", ":" >>, << "1", "2" >> }

Date(y, m, d) == [y |-> y, m |-> m, d |-> d]

\* Date values chosen in the interleaved machine.
DateSamples ==
  { EmptyDate, Date(2024, 12, 31), Date(2025, 1, 1), Date(2025, 1, 28),
    Date(2025, 7, 2), Date(2025, 12, 31) }

\* Directions of pointer positions: some eighths of a turn, a direction a hair
\* below the +x axis (closer to it than half an Ulp) and one a little below it.
DragAngles ==
  { k * (ProgressDen \div 8) : k \in {-2, -1, 0, 2, 4} } \cup { -1, -(EarthTickUnits \div 2) }

\* Pointer positions: on the orbit circle, and around the centre the moon branch
\* computes from the rendered earthOrbitProgress.
DragPoints(state) ==
  { WorldPoint(t, 0, 0) : t \in DragAngles }
    \cup { WorldPoint(state.earthOrbitProgress, t, 1) : t \in DragAngles }

PointUsable(point, target, state) ==
  /\ target = "earth" => PointAngleDefined(point)
  /\ target = "moon" => RelAngleDefined(point, state.earthOrbitProgress)

(* ------------------------------- actions ------------------------------- *)

Snapshot == [state |-> celestialState, dragTarget |-> dragTarget]

Init ==
  /\ tzOffset \in TzOffsets
  /\ celestialState = InitialState(tzOffset)
  /\ viewMode = "HOME"
  /\ dragTarget = "none"
  /\ rendered = [state |-> celestialState, dragTarget |-> "none"]
  /\ lastEvent = [kind |-> "init"]
  /\ origin = celestialState
  /\ steps = 0

\* One firing of the interval timer.
TickEvent ==
  /\ celestialState' = TickFn(celestialState)
  /\ lastEvent' = [kind |-> "tick"]
  /\ steps' = steps + 1
  /\ UNCHANGED <<viewMode, dragTarget, rendered, tzOffset, origin>>

Tick == steps < MaxSteps /\ TickEvent

\* A change event of the time input.
TimeEdit(values) ==
  \E value \in values :
    /\ celestialState' = handleTimeChange(celestialState, value)
    /\ lastEvent' = [kind |-> "time", value |-> value]
    /\ steps' = steps + 1
    /\ UNCHANGED <<viewMode, dragTarget, rendered, tzOffset, origin>>

\* A change event of the date input.
DateEdit(values) ==
  \E value \in values :
    /\ celestialState' = handleDateChange(celestialState, value, tzOffset)
    /\ lastEvent' = [kind |-> "date", value |-> value]
    /\ steps' = steps + 1
    /\ UNCHANGED <<viewMode, dragTarget, rendered, tzOffset, origin>>

\* toggleView: the other view is mounted; a mounted Scene starts with no drag target.
ToggleView ==
  /\ viewMode' = IF viewMode = "HOME" THEN "UNIVERSE" ELSE "HOME"
  /\ dragTarget' = "none"
  /\ rendered' = [state |-> celestialState, dragTarget |-> "none"]
  /\ lastEvent' = [kind |-> "toggle"]
  /\ UNCHANGED <<celestialState, tzOffset, origin, steps>>

\* React renders after the updates of a timer, an input or a pointer move: the
\* handlers and props of the views now hold the current state.
Render ==
  /\ rendered # Snapshot
  /\ rendered' = Snapshot
  /\ lastEvent' = [kind |-> "render"]
  /\ UNCHANGED <<celestialState, viewMode, dragTarget, tzOffset, origin, steps>>

\* Mutant: the drag target set, the Scene not rendered again.
StartDragDeferred(target) ==
  /\ viewMode = "UNIVERSE"
  /\ ~miniMap
  /\ dragTarget' = target
  /\ lastEvent' = [kind |-> "start", value |-> target]
  /\ UNCHANGED <<celestialState, viewMode, rendered, tzOffset, origin, steps>>

\* handleStartDragEarth / handleStartDragMoon: pointer down on Earth or on the Moon.
\* setDragTarget is the Scene's own state, set in a pointer-down handler: the
\* Scene is rendered with it, on the props it already has, before the next event.
StartDrag(target) ==
  /\ viewMode = "UNIVERSE"
  /\ ~miniMap
  /\ dragTarget' = target
  /\ rendered' = [rendered EXCEPT !.dragTarget = target]
  /\ lastEvent' = [kind |-> "start", value |-> target]
  /\ UNCHANGED <<celestialState, viewMode, tzOffset, origin, steps>>

\* Mutant: the drag target cleared, the Scene not rendered again.
EndDragDeferred ==
  /\ viewMode = "UNIVERSE"
  /\ dragTarget' = "none"
  /\ lastEvent' = [kind |-> "end"]
  /\ UNCHANGED <<celestialState, viewMode, rendered, tzOffset, origin, steps>>

\* handleEndDrag: pointer up on, or pointer leaving, the interaction plane; the
\* Scene is rendered with the cleared target before the next event.
EndDrag ==
  /\ viewMode = "UNIVERSE"
  /\ dragTarget' = "none"
  /\ rendered' = [rendered EXCEPT !.dragTarget = "none"]
  /\ lastEvent' = [kind |-> "end"]
  /\ UNCHANGED <<celestialState, viewMode, tzOffset, origin, steps>>

\* enabled={!dragTarget} of the OrbitControls the Scene rendered.
OrbitControlsEnabled == ~miniMap /\ rendered.dragTarget = "none"

\* Pointer move on the interaction plane: onDrag is called when the rendered
\* isDragging is true, with the handleDragUpdate of the last render.
PointerMove ==
  /\ viewMode = "UNIVERSE"
  /\ \E point \in DragPoints(rendered.state) :
       /\ PointUsable(point, rendered.dragTarget, rendered.state)
       /\ celestialState' =
            IF rendered.dragTarget # "none"
            THEN handleDragUpdate(celestialState, point, rendered.dragTarget, rendered.state)
            ELSE celestialState
       /\ lastEvent' = [kind |-> "move", value |-> point]
  /\ steps' = steps + 1
  /\ UNCHANGED <<viewMode, dragTarget, rendered, tzOffset, origin>>

Next ==
  \/ Tick
  \/ steps < MaxSteps /\ TimeEdit(TimeSamples)
  \/ steps < MaxSteps /\ DateEdit(DateSamples)
  \/ steps < MaxSteps /\ PointerMove
  \/ ToggleView
  \/ Render
  \/ StartDrag("earth")
  \/ StartDrag("moon")
  \/ EndDrag

Spec == Init /\ [][Next]_vars

(* ------------------------ the clock running alone ---------------------- *)

\* States the clock is started from: the initial state, and states the editors
\* and an Earth drag put the program in.
ClockStarts(tz) ==
  LET s0 == InitialState(tz)
  IN  { s0,
        handleTimeChange(s0, << "2", "3", ":", "5", "9" >>),
        handleDateChange(s0, Date(2025, 1, 28), tz),
        handleDragUpdate(handleTimeChange(s0, << "0", "6", ":", "3", "0" >>),
                         WorldPoint(-(EarthTickUnits \div 2), 0, 0), "earth", s0) }

InitClock ==
  /\ tzOffset \in TzOffsets
  /\ celestialState \in ClockStarts(tzOffset)
  /\ viewMode = "HOME"
  /\ dragTarget = "none"
  /\ rendered = [state |-> celestialState, dragTarget |-> "none"]
  /\ lastEvent = [kind |-> "init"]
  /\ origin = celestialState
  /\ steps = 0

ClockTick == steps < MaxTicks /\ TickEvent

SpecClock == InitClock /\ [][ClockTick]_vars

(* ------------------------ the editors running alone -------------------- *)

\* Characters typed into the time input: two digits, the colon, a letter.
TypedChars == {"1", "7", ":", "x"}

\* Every string of at most MaxTyped of these characters, within the input's
\* maxLength, and the samples of the interleaved machine.
TypedStrings ==
  UNION { [1..n -> TypedChars] : n \in 0..(IF MaxTyped < TimeMaxLength THEN MaxTyped ELSE TimeMaxLength) }
    \cup TimeSamples

\* Every value the date input can deliver: empty, or a date of the calendar.
OfferedDates ==
  { v \in [y : (2025 - MaxYears)..(2025 + MaxYears), m : 1..12, d : 1..31] : ValidDate(v) }
    \cup { EmptyDate }

\* One edit applied to each start state.
EditNext ==
  \/ steps = 0 /\ TimeEdit(TypedStrings)
  \/ steps = 0 /\ DateEdit(OfferedDates)

SpecEdit == InitClock /\ [][EditNext]_vars

(* ---------------------- drags on the drawn bodies ---------------------- *)

\* Progress values of the states the drags are started from: eighths of a turn.
SceneGrid == { k * (ProgressDen \div 8) : k \in 0..7 }

\* The universe view showing any Earth and Moon progress of the grid (each is
\* reached from the initial state by an Earth drag and a Moon drag).
InitScene ==
  /\ tzOffset \in TzOffsets
  /\ \E e \in SceneGrid, m \in SceneGrid :
       celestialState = [ InitialState(tzOffset) EXCEPT !.earthOrbitProgress = e,
                                                         !.moonOrbitProgress = m ]
  /\ viewMode = "UNIVERSE"
  /\ dragTarget = "none"
  /\ rendered = [state |-> celestialState, dragTarget |-> "none"]
  /\ lastEvent = [kind |-> "init"]
  /\ origin = celestialState
  /\ steps = 0

\* Pointer move while the pointer is on the body being dragged, as drawn by the
\* last render.
PointerMoveOnBody ==
  /\ viewMode = "UNIVERSE"
  /\ rendered.dragTarget # "none"
  /\ LET point == IF rendered.dragTarget = "earth" THEN EarthPosition(rendered.state)
                  ELSE MoonPosition(rendered.state)
     IN  /\ PointUsable(point, rendered.dragTarget, rendered.state)
         /\ celestialState' =
              handleDragUpdate(celestialState, point, rendered.dragTarget, rendered.state)
         /\ lastEvent' = [kind |-> "move", value |-> point]
  /\ steps' = steps + 1
  /\ UNCHANGED <<viewMode, dragTarget, rendered, tzOffset, origin>>

DragNext ==
  \/ StartDrag("earth")
  \/ StartDrag("moon")
  \/ EndDrag
  \/ Render
  \/ steps < MaxDrags /\ PointerMoveOnBody

SpecDrag == InitScene /\ [][DragNext]_vars

(* ---------------- the clock and the date editor together --------------- *)

\* Clock ticks and date edits from the epoch state: no drags, no time edits.
CalendarNext ==
  \/ steps < MaxSteps /\ TickEvent
  \/ steps < MaxSteps /\ DateEdit(DateSamples)

SpecCalendar == Init /\ [][CalendarNext]_vars

(* ================================ claims =============================== *)

\* C1: in every reachable state the stored values satisfy 0 <= time < 24,
\* 0 <= earthOrbitProgress < 1 and 0 <= moonOrbitProgress < 1.
C1_StoredRanges ==
  /\ 0 <= celestialState.time /\ celestialState.time < DayUnits
  /\ 0 <= celestialState.earthOrbitProgress /\ celestialState.earthOrbitProgress < ProgressDen
  /\ 0 <= celestialState.moonOrbitProgress /\ celestialState.moonOrbitProgress < ProgressDen

\* The calendar day (days from 2025-01-01) and the hour a Date shows in local time.
LocalDay(date, tz) == (date + tz) \div HoursPerDay

LocalHour(date, tz) == (date + tz) % HoursPerDay

\* C2: a clock tick is enabled in every state and yields time' = (time + 0.02) mod 24,
\* the date one calendar day later exactly when time + 0.02 >= 24 and otherwise the
\* same date, earthOrbitProgress' = (earthOrbitProgress + 0.02/(24*365)) mod 1 and
\* moonOrbitProgress' = (moonOrbitProgress + 0.02/(24*28)) mod 1.
C2_TickEffect ==
  /\ [](steps < MaxTicks => ENABLED ClockTick)
  /\ [][ lastEvent'.kind = "tick" =>
           /\ celestialState'.time
                = (celestialState.time + (2 * UnitsPerHour) \div 100) % (24 * UnitsPerHour)
           /\ IF celestialState.time + (2 * UnitsPerHour) \div 100 >= 24 * UnitsPerHour
              THEN /\ LocalDay(celestialState'.date, tzOffset) = LocalDay(celestialState.date, tzOffset) + 1
                   /\ LocalHour(celestialState'.date, tzOffset) = LocalHour(celestialState.date, tzOffset)
              ELSE celestialState'.date = celestialState.date
           /\ celestialState'.earthOrbitProgress
                = (celestialState.earthOrbitProgress + ProgressDen \div (1200 * 365)) % ProgressDen
           /\ celestialState'.moonOrbitProgress
                = (celestialState.moonOrbitProgress + ProgressDen \div (1200 * 28)) % ProgressDen
       ]_vars

\* A tick has carried the time over midnight, and another has not.
C2_Witness ==
  /\ lastEvent.kind = "tick"
  /\ celestialState.time < TickUnits
  /\ LocalDay(celestialState.date, tzOffset) = LocalDay(origin.date, tzOffset) + 1
  /\ celestialState.earthOrbitProgress < origin.earthOrbitProgress

C4_OrbitPeriods ==
  LET days == steps \div 1200
      whole == steps % 1200 = 0
  IN  /\ steps = 365 * 1200 => celestialState.earthOrbitProgress = origin.earthOrbitProgress
      /\ steps = 28 * 1200 => celestialState.moonOrbitProgress = origin.moonOrbitProgress
      /\ whole /\ 0 < days /\ days < 365 =>
           celestialState.earthOrbitProgress # origin.earthOrbitProgress
      /\ whole /\ 0 < days /\ days < 28 =>
           celestialState.moonOrbitProgress # origin.moonOrbitProgress

\* 365 simulated days of ticks have passed and Earth is back where it started.
C4_Witness ==
  /\ steps = 365 * 1200
  /\ lastEvent.kind = "tick"
  /\ celestialState.earthOrbitProgress = origin.earthOrbitProgress
  /\ origin.earthOrbitProgress > 0

\* The date the date input shows for the calendar day d (days from 2025-01-01).
DateOfDay(d) ==
  CHOOSE v \in [y : 2024..2027, m : 1..12, d : 1..31] : ValidDate(v) /\ CalendarDay(v) = d

\* C5: for every whole number d >= 0, a date edit to the date d days after the
\* epoch yields the earthOrbitProgress and moonOrbitProgress of the state the clock
\* reaches from the epoch state by ticks covering d whole simulated days.
C5_ResyncAgreesWithClock ==
  (origin = InitialState(tzOffset) /\ steps % 1200 = 0) =>
    LET edited == handleDateChange(origin, DateOfDay(steps \div 1200), tzOffset)
    IN  /\ edited.earthOrbitProgress = celestialState.earthOrbitProgress
        /\ edited.moonOrbitProgress = celestialState.moonOrbitProgress

\* The same agreement on hosts at or east of UTC, where the day offset of a date
\* edit is the calendar offset.
C5_AgreesEastOfUTC == tzOffset >= 0 => C5_ResyncAgreesWithClock

\* C6: a date edit to a valid date whose day offset from 2025-01-01 is d sets
\* earthOrbitProgress to (d mod 365)/365 and moonOrbitProgress to (d mod 28)/28 with
\* the non-negative remainder, both in [0,1); d = 182 gives 182/365.
C6_DateEditProgress ==
  [][ (lastEvent'.kind = "date" /\ ValidDate(lastEvent'.value)) =>
        LET d == CalendarDay(lastEvent'.value)
        IN  /\ celestialState'.earthOrbitProgress = (d % 365) * (ProgressDen \div 365)
            /\ celestialState'.moonOrbitProgress = (d % 28) * (ProgressDen \div 28)
            /\ celestialState'.earthOrbitProgress \in 0..(ProgressDen - 1)
            /\ celestialState'.moonOrbitProgress \in 0..(ProgressDen - 1)
    ]_vars

\* The same effect on hosts at or east of UTC.
C6_EastOfUTC ==
  [][ (tzOffset >= 0 /\ lastEvent'.kind = "date" /\ ValidDate(lastEvent'.value)) =>
        LET d == CalendarDay(lastEvent'.value)
        IN  /\ celestialState'.earthOrbitProgress = (d % 365) * (ProgressDen \div 365)
            /\ celestialState'.moonOrbitProgress = (d % 28) * (ProgressDen \div 28)
    ]_vars

\* A well-formed HH:MM text: digits, one colon, digits, with 0 <= HH < 24 and
\* 0 <= MM < 60.
WellFormedTime(value) ==
  \E i \in 2..(Len(value) - 1) :
    /\ value[i] = ":"
    /\ \A j \in 1..Len(value) : j # i => value[j] \in Digits
    /\ DecimalValue(SubSeq(value, 1, i - 1)) < 24
    /\ DecimalValue(SubSeq(value, i + 1, Len(value))) < 60

\* C7: a date value that does not parse to a valid date, and a time string that is
\* not a well-formed HH:MM, leave the CelestialState as it was.
C7_MalformedEditsDiscarded ==
  [][ ( \/ lastEvent'.kind = "date" /\ ~ValidDate(lastEvent'.value)
        \/ lastEvent'.kind = "time" /\ ~WellFormedTime(lastEvent'.value) )
      => celestialState' = celestialState
    ]_vars

PhaseNames ==
  { "New Moon", "Waxing Crescent", "First Quarter", "Waxing Gibbous", "Full Moon",
    "Waning Gibbous", "Last Quarter", "Waning Crescent" }

\* The boundary values 0.03, 0.22, 0.28, 0.47, 0.53, 0.72, 0.78, 0.97.
PhaseBoundaries == { k * (ProgressDen \div 100) : k \in {3, 22, 28, 47, 53, 72, 78, 97} }

\* C8: for every moonOrbitProgress both labels are one of the 8 named phases, never
\* the empty or the fallback label, and a boundary value is classified with the
\* values just above it (0.97 as New Moon), not with those just below.
C8_PhaseTotalHalfOpen ==
  LET p == celestialState.moonOrbitProgress
  IN  /\ moonPhaseName(p) \in PhaseNames
      /\ moonPhaseText(p) \in PhaseNames
      /\ p \in PhaseBoundaries =>
           /\ moonPhaseName(p) = moonPhaseName(p + 1) /\ moonPhaseName(p) # moonPhaseName(p - 1)
           /\ moonPhaseText(p) = moonPhaseText(p + 1) /\ moonPhaseText(p) # moonPhaseText(p - 1)
      /\ p = 97 * (ProgressDen \div 100) => moonPhaseText(p) = "New Moon"

\* C9: the sky label follows the table: p < 0.03 or p > 0.97 New Moon, [0.03,0.22)
\* Waxing Crescent, [0.22,0.28) First Quarter, [0.28,0.47) Waxing Gibbous,
\* [0.47,0.53) Full Moon, [0.53,0.72) Waning Gibbous, [0.72,0.78) Last Quarter,
\* [0.78,0.97) Waning Crescent; moonOrbitProgress 0 is New Moon, 0.5 is Full Moon.
C9_SkyLabelTable ==
  LET p == celestialState.moonOrbitProgress
      h == ProgressDen \div 100
      label == moonPhaseText(p)
  IN  /\ (p < 3 * h \/ p > 97 * h) => label = "New Moon"
      /\ (3 * h <= p /\ p < 22 * h) => label = "Waxing Crescent"
      /\ (22 * h <= p /\ p < 28 * h) => label = "First Quarter"
      /\ (28 * h <= p /\ p < 47 * h) => label = "Waxing Gibbous"
      /\ (47 * h <= p /\ p < 53 * h) => label = "Full Moon"
      /\ (53 * h <= p /\ p < 72 * h) => label = "Waning Gibbous"
      /\ (72 * h <= p /\ p < 78 * h) => label = "Last Quarter"
      /\ (78 * h <= p /\ p < 97 * h) => label = "Waning Crescent"
      /\ p = 0 => label = "New Moon"
      /\ 2 * p = ProgressDen => label = "Full Moon"

\* The clock has brought the Moon from the epoch to exactly half an orbit, and the
\* sky labels it Full Moon.
C9_Witness ==
  /\ origin = InitialState(tzOffset)
  /\ moonPhaseText(origin.moonOrbitProgress) = "New Moon"
  /\ lastEvent.kind = "tick"
  /\ 2 * celestialState.moonOrbitProgress = ProgressDen
  /\ moonPhaseText(celestialState.moonOrbitProgress) = "Full Moon"

\* C10: for every moonOrbitProgress the header names the same phase as the sky view.
C10_OneMapping ==
  moonPhaseName(celestialState.moonOrbitProgress) = moonPhaseText(celestialState.moonOrbitProgress)

\* C11: an Earth drag update at the world point where the scene draws Earth
\* leaves earthOrbitProgress unchanged.
C11_EarthDragRoundTrip ==
  [][ ( /\ lastEvent'.kind = "move"
        /\ rendered.dragTarget = "earth"
        /\ rendered.state = celestialState
        /\ lastEvent'.value = EarthPosition(celestialState) )
      => celestialState'.earthOrbitProgress = celestialState.earthOrbitProgress ]_vars

\* C12: a Moon drag update at the world point where the scene draws the Moon
\* leaves moonOrbitProgress unchanged.
C12_MoonDragRoundTrip ==
  [][ ( /\ lastEvent'.kind = "move"
        /\ rendered.dragTarget = "moon"
        /\ rendered.state = celestialState
        /\ lastEvent'.value = MoonPosition(celestialState) )
      => celestialState'.moonOrbitProgress = celestialState.moonOrbitProgress ]_vars

\* The angle from the drawn Earth-to-Sun direction to the drawn Earth-to-Moon
\* direction, in [0, 1) turn.
MoonFromSun(state) == (MoonDirection(state) - sceneAngleToSun(state)) % ProgressDen

\* C13: the angle between the drawn Earth-to-Sun and Earth-to-Moon directions is
\* the same for every earthOrbitProgress; at moonOrbitProgress = 0 the Moon is
\* drawn on the Sun's side of Earth and at 1/2 on the opposite side.
C13_MoonRelativeToSunLine ==
  /\ \A e \in SceneGrid :
       MoonFromSun([celestialState EXCEPT !.earthOrbitProgress = e]) = MoonFromSun(celestialState)
  /\ celestialState.moonOrbitProgress = 0 => MoonFromSun(celestialState) = 0
  /\ celestialState.moonOrbitProgress = HalfTurn => MoonFromSun(celestialState) = HalfTurn

\* C18: in the sky view the Moon is hidden exactly when the progress is New Moon
\* (p < 0.03 or p > 0.97), or when it is in [0.03, 0.22) and time is outside
\* [18, 24); in every other state it is rendered.
C18_MoonVisibility ==
  LET p == celestialState.moonOrbitProgress
      evening == celestialState.time >= 18 * UnitsPerHour /\ celestialState.time < 24 * UnitsPerHour
  IN  /\ (p < Hundredths(3) \/ p > Hundredths(97)) => ~moonVisible(celestialState)
      /\ (p >= Hundredths(3) /\ p < Hundredths(22) /\ ~evening) => ~moonVisible(celestialState)
      /\ (p >= Hundredths(3) /\ p < Hundredths(22) /\ evening) => moonVisible(celestialState)
      /\ (p >= Hundredths(22) /\ p <= Hundredths(97)) => moonVisible(celestialState)

\* A waxing crescent shown at 18:00 sharp, after one hidden in the afternoon.
C18_Witness ==
  /\ viewMode = "HOME"
  /\ celestialState.moonOrbitProgress >= Hundredths(3)
  /\ celestialState.moonOrbitProgress < Hundredths(22)
  /\ celestialState.time = 18 * UnitsPerHour
  /\ moonVisible(celestialState)
  /\ ~moonVisible([celestialState EXCEPT !.time = 18 * UnitsPerHour - TickUnits])
  /\ steps > 0

\* Two angles that name the same direction.
SameDirection(a, b) == (a - b) % ProgressDen = 0

\* C14: seen from above (+X to the right, +Z down, as the CSS angles run), the
\* overlay's Earth rotation is the screen angle of the drawn Earth and the
\* overlay's net Moon rotation is the screen angle of the drawn Moon offset.
C14_ProjectionConsistency ==
  viewMode = "HOME" =>
    /\ SameDirection(OverlayEarthRotation(celestialState), EarthDirection(celestialState))
    /\ SameDirection(OverlayMoonRotation(celestialState), MoonDirection(celestialState))

\* The overlay shown for an Earth and a Moon that are both off the x axis.
C14_Witness ==
  /\ viewMode = "HOME"
  /\ steps > 0
  /\ ~SameDirection(2 * celestialState.earthOrbitProgress, 0)
  /\ ~SameDirection(2 * sceneMoonAngle(celestialState), 0)
  /\ SameDirection(OverlayMoonRotation(celestialState), MoonDirection(celestialState))

\* C19: the view marker's offset from Earth's centre is (cos(a)*r, -sin(a)*r)
\* with a = angleToSun + (time/24)*2*pi, the sign convention of Earth and Moon.
C19_MarkerConvention ==
  userDirection(celestialState)
    = (-(3 * sceneAngleToSun(celestialState) + timeAngle(celestialState))) % FineDen

\* C15: a pointer-up or pointer-leave on the interaction plane results in drag
\* mode none from every mode; until the next begin-drag the mode stays none and
\* no pointer move changes the CelestialState.
C15_ReleaseClearsMode ==
  [][ /\ lastEvent'.kind = "end" => dragTarget' = "none"
      /\ (dragTarget = "none" /\ dragTarget' # "none") => lastEvent'.kind = "start"
      /\ (dragTarget = "none" /\ lastEvent'.kind = "move") => celestialState' = celestialState
    ]_vars

\* A pointer move that changed nothing, after a release that followed an Earth
\* drag to the far side of the orbit.
C15_Witness ==
  /\ lastEvent.kind = "move"
  /\ dragTarget = "none"
  /\ viewMode = "UNIVERSE"
  /\ steps = 2
  /\ celestialState = [origin EXCEPT !.earthOrbitProgress = HalfTurn]

\* C16: in the universe view the drag mode is one of none, earth, moon, and the
\* camera controls are enabled if and only if it is none.
C16_ControlsSuspendedWhileDragging ==
  viewMode = "UNIVERSE" =>
    /\ dragTarget \in {"none", "earth", "moon"}
    /\ OrbitControlsEnabled <=> dragTarget = "none"

\* A clock tick in the middle of a Moon drag, the controls still suspended.
C16_Witness ==
  /\ viewMode = "UNIVERSE"
  /\ dragTarget = "moon"
  /\ lastEvent.kind = "tick"
  /\ ~OrbitControlsEnabled

\* C17: the earthOrbitProgress a Moon drag update inverts against is the one the
\* CelestialState holds when the update is merged.
C17_MoonDragReadsCurrentEarth ==
  [][ (lastEvent'.kind = "move" /\ rendered.dragTarget = "moon")
      => /\ rendered.state.earthOrbitProgress = celestialState.earthOrbitProgress
         /\ celestialState'.moonOrbitProgress = MoonDragProgress(lastEvent'.value, celestialState)
    ]_vars

\* C20: a drag update in mode earth changes only earthOrbitProgress, in mode
\* moon only moonOrbitProgress, in mode none nothing; a time edit changes only
\* time; a date edit leaves time unchanged.  The state the edit is merged into
\* is the current one, clock ticks since the last render included.
C20_EditFrames ==
  [][ /\ (lastEvent'.kind = "move" /\ rendered.dragTarget = "earth")
           => celestialState' = [celestialState EXCEPT
                                   !.earthOrbitProgress = celestialState'.earthOrbitProgress]
      /\ (lastEvent'.kind = "move" /\ rendered.dragTarget = "moon")
           => celestialState' = [celestialState EXCEPT
                                   !.moonOrbitProgress = celestialState'.moonOrbitProgress]
      /\ (lastEvent'.kind = "move" /\ rendered.dragTarget = "none")
           => celestialState' = celestialState
      /\ lastEvent'.kind = "time"
           => celestialState' = [celestialState EXCEPT !.time = celestialState'.time]
      /\ lastEvent'.kind = "date"
           => celestialState'.time = celestialState.time
    ]_vars

\* An Earth drag update merged after a clock tick that was not rendered yet:
\* the tick's advance of time and of the Moon is still there.
C20_Witness ==
  /\ lastEvent.kind = "move"
  /\ rendered.dragTarget = "earth"
  /\ celestialState.time = (rendered.state.time + TickUnits) % DayUnits
  /\ celestialState.moonOrbitProgress = (rendered.state.moonOrbitProgress + MoonTickUnits) % ProgressDen
  /\ celestialState.earthOrbitProgress = HalfTurn

\* Ticks elapsed since 18:00 of the epoch day at local day offset D and a time
\* of day on the tick grid.
TicksSinceEpoch(D, time) == D * TicksPerDay + (time - 18 * UnitsPerHour) \div TickUnits

\* The progress values the formula of C21 gives to the current date and time.
PhaseFormulaHolds ==
  LET n == TicksSinceEpoch(LocalDay(celestialState.date, tzOffset), celestialState.time)
  IN  /\ celestialState.earthOrbitProgress = (n * EarthTickUnits) % ProgressDen
      /\ celestialState.moonOrbitProgress = (n * MoonTickUnits) % ProgressDen

\* C21: in every state reached from the epoch state by clock ticks and date
\* edits, earthOrbitProgress = ((D + (time - 18)/24)/365) mod 1 and
\* moonOrbitProgress = ((D + (time - 18)/24)/28) mod 1, D the day offset of the
\* state's date from the epoch.
C21_DateAndPhaseConsistent == PhaseFormulaHolds

\* The same formula along the clock running alone from the epoch state.
C21_HoldsByClockAlone == origin = InitialState(tzOffset) => PhaseFormulaHolds

\* C22: on every host offset, the day offset a date edit computes is the number
\* of calendar days from 2025-01-01 to the chosen date, and the date it stores
\* displays in local time as the chosen calendar date.
C22_DayOffsetOnEveryHost ==
  [][ (lastEvent'.kind = "date" /\ ValidDate(lastEvent'.value)) =>
        /\ DaysDiff(ParseDate(lastEvent'.value).val, tzOffset) = CalendarDay(lastEvent'.value)
        /\ LocalDay(celestialState'.date, tzOffset) = CalendarDay(lastEvent'.value)
    ]_vars

\* The same on hosts at or east of UTC.
C22_HoldsEastOfUTC ==
  [][ (tzOffset >= 0 /\ lastEvent'.kind = "date" /\ ValidDate(lastEvent'.value)) =>
        /\ DaysDiff(ParseDate(lastEvent'.value).val, tzOffset) = CalendarDay(lastEvent'.value)
        /\ LocalDay(celestialState'.date, tzOffset) = CalendarDay(lastEvent'.value)
    ]_vars

\* C23: whenever the Moon is hidden in the sky view its directional light has
\* intensity 0 after the frame callback; when the Moon is rendered the intensity
\* is 0 if distanceFromNew < 0.005, 80 if 0.005 <= distanceFromNew < 0.1, and 30
\* otherwise.
C23_MoonLightIntensity ==
  LET p == celestialState.moonOrbitProgress
      d == IF p < ProgressDen - p THEN p ELSE ProgressDen - p
  IN  /\ ~moonVisible(celestialState) => moonLightIntensity(celestialState) = 0
      /\ moonVisible(celestialState) =>
           /\ d < ProgressDen \div 200 => moonLightIntensity(celestialState) = 0
           /\ (d >= ProgressDen \div 200 /\ d < ProgressDen \div 10)
                => moonLightIntensity(celestialState) = 80
           /\ d >= ProgressDen \div 10 => moonLightIntensity(celestialState) = 30

\* The light of the rendered Moon alone.
C23_HoldsWhenRendered ==
  LET p == celestialState.moonOrbitProgress
      d == IF p < ProgressDen - p THEN p ELSE ProgressDen - p
  IN  moonVisible(celestialState) =>
        /\ d >= ProgressDen \div 200
        /\ d < ProgressDen \div 10 => moonLightIntensity(celestialState) = 80
        /\ d >= ProgressDen \div 10 => moonLightIntensity(celestialState) = 30

====
